---- MODULE Spec2Model ----
(***************************************************************************)
(* Offline-first sync engine of the beauty-shop point of sale: the local   *)
(* store (Dexie), the mutation queue (offlineQueue.ts), the pull / push /  *)
(* fixup phases and the orchestrator performFullSync (sync.ts), together   *)
(* with the UI handlers that write to the local store and enqueue          *)
(* mutations (Products.tsx, Sales.tsx, Dashboard.tsx).                     *)
(*                                                                         *)
(* Identifiers are pairs <<prefix, n>>: startsWith('local_') is a test of  *)
(* the first component.  uuidv4() is a fresh <<"uuid", n>>.  A mutation's  *)
(* primary key is a uuid as well; of a random key only its rank among the  *)
(* keys of the table matters, so keyOrder holds the keys of db.mutations   *)
(* in primary-key order and a new uuid key enters at any position.  Keys   *)
(* of the fixup's mutations start with "remap_" and sort after every uuid. *)
(* Date.now() is read off two clocks: `now` for the debounce and the sync  *)
(* stamps, and the count of mutations created for a mutation's timestamp,  *)
(* which keeps the creation order without ties.                            *)
(***************************************************************************)
EXTENDS Integers, Sequences, FiniteSets, TLC

\* ---------------------------------------------------------------- bounds
MaxWrites == 2        \* UI writes in one behaviour
MaxCycles == 2        \* full syncs started in one behaviour
MaxFaults == 1        \* backend / store faults in one behaviour
MaxTicks == 1         \* ticks of the wall clock in one behaviour
RetryCycles == 6      \* full syncs, faults and ticks under SpecRetry
LiveCycles == 2       \* full syncs, faults and ticks under SpecLive
DrainCycles == 6      \* full syncs, faults and ticks under SpecDrain
MidWrites == 1        \* UI writes during a push pass under SpecMid
MaxEnqueues == 1      \* direct calls of enqueueMutation under SpecQueue
MaxSignals == 2       \* host online / offline signals under SpecWatch
MaxProbes == 3        \* reachability probes issued under SpecWatch
MaxQuantity == 9      \* largest stock of a product under SpecStock
MaxLevel == 9         \* largest low_stock_level under SpecStock

\* ------------------------------------------------------ program constants
SYNC_DEBOUNCE_MS == 1000
maxRetries == 5

\* the wall clock advances in steps of the debounce interval
TickMs == SYNC_DEBOUNCE_MS

\* ------------------------------------------------------------ identifiers
LocalId(n) == <<"local_", n>>
SaleId(n) == <<"sale_", n>>
Uuid(n) == <<"uuid", n>>
startsWith(id, prefix) == id[1] = prefix

\* the record that exists on both sides when the application starts
SeedProduct == Uuid(0)

\* ------------------------------------------------------------------ state
VARIABLES
  products,         \* db.products : id -> row
  sales,            \* db.sales    : id -> row
  mutations,        \* db.mutations: mutation id -> MutationRecord
  keyOrder,         \* the ids of db.mutations in primary-key order
  syncMeta,         \* db.syncMeta 'sync_meta' row
  rProducts,        \* remote table products: id -> row
  rSales,           \* remote table sales: id -> row
  syncInProgress,   \* module variable of sync.ts
  lastSyncAttempt,  \* module variable of sync.ts
  pc,               \* position of the running performFullSync
  active,           \* calls currently inside the body of performFullSync
  returned,         \* value the last return of performFullSync gave
  pull,             \* results of the pull phase of the running cycle
  snap,             \* pushPendingMutations: the array `mutations`
  idMappings,       \* pushPendingMutations: the object `idMappings`
  idx,              \* pushPendingMutations: position of the apply loop
  failedCount,      \* pushPendingMutations: failedCount
  pushResult,       \* value returned by pushPendingMutations
  now,              \* Date.now()
  nextUuid,         \* uuids handed out so far
  nextLocal,        \* placeholder ids minted so far
  nextMut,          \* mutations created so far
  sent,             \* history: requests transmitted by the apply pass
  cycle,            \* history: full syncs started
  writes,           \* history: UI writes
  faults,           \* history: faults injected
  wroteInCycle,     \* history: a UI write happened since the cycle began
  startProducts,    \* history: db.products when the cycle began
  startSales,       \* history: db.sales when the cycle began
  lim,              \* limits of the behaviour (fixed by the initial state)
  navigatorOnLine,  \* navigator.onLine, the host's connectivity signal
  autoSyncInterval, \* module variable of sync.ts: the periodic timer is set
  syncScheduled,    \* watchOnlineStatus: the closure variable syncScheduled
  probes,           \* watchOnlineStatus: reachability probes in flight
  recheck,          \* watchOnlineStatus: 100 ms timeouts of handleOnline pending
  retry,            \* watchOnlineStatus: 1 s retry timeouts pending
  probeOk,          \* history: a probe succeeded since the last online signal
  retried,          \* history: probes issued by the retry timeout since then
  trigger,          \* history: what started the latest full sync
  signals,          \* history: host signals delivered
  issued,           \* history: probes issued
  intervals,        \* setInterval timers of startAutoSync that are not cleared
  listeners,        \* the calls of watchOnlineStatus made by the components:
                    \* call site -> its listeners and its closure
  view              \* what the product list and the dashboard last computed

storeVars == <<products, sales, mutations, keyOrder, syncMeta>>
remoteVars == <<rProducts, rSales>>
flagVars == <<syncInProgress, lastSyncAttempt>>
runVars == <<pc, active, returned, pull, snap, idMappings, idx, failedCount, pushResult>>
envVars == <<now, nextUuid, nextLocal, nextMut>>
histVars == <<sent, cycle, writes, faults, wroteInCycle,
              startProducts, startSales, lim>>
appVars == <<storeVars, remoteVars, flagVars, runVars, envVars, histVars, view>>
watchVars == <<navigatorOnLine, autoSyncInterval, syncScheduled, probes, recheck, retry,
               probeOk, retried, trigger, signals, issued, intervals, listeners>>
vars == <<storeVars, remoteVars, flagVars, runVars, envVars, histVars, watchVars, view>>

\* ------------------------------------------------------- record helpers
Empty == <<>>

\* Dexie Table.update / PostgREST update: overwrite the named fields
Merge(row, patch) ==
  [f \in DOMAIN row \cup DOMAIN patch |->
     IF f \in DOMAIN patch THEN patch[f] ELSE row[f]]

Without(row, fields) == [f \in DOMAIN row \ fields |-> row[f]]

\* Table.put / Table.add of one row
Put(table, id, row) ==
  [k \in DOMAIN table \cup {id} |-> IF k = id THEN row ELSE table[k]]

\* Table.delete of one key
Remove(table, id) == [k \in DOMAIN table \ {id} |-> table[k]]

\* Table.update: no effect when the key is absent
Update(table, id, patch) ==
  IF id \in DOMAIN table THEN Put(table, id, Merge(table[id], patch)) ELSE table

\* the columns of a remote row: the payload without its key
RemoteRow(payload) == Without(payload, {"id"})

\* ------------------------------------------------------- mutation queue
MutId(n) == <<"uuid", n>>
RemapId(n) == <<"remap_", n>>

\* enqueueMutation: the MutationRecord it builds, the n-th of the behaviour
NewMutation(n, table, operation, recordId, payload) ==
  [table |-> table, operation |-> operation, recordId |-> recordId,
   payload |-> payload, timestamp |-> n, status |-> "pending", retries |-> 0]

InsertAt(seq, pos, x) ==
  SubSeq(seq, 1, pos) \o <<x>> \o SubSeq(seq, pos + 1, Len(seq))

\* the positions a new uuid key takes among the keys of db.mutations: it is
\* drawn as the least or as the greatest of the uuid keys
UuidSlots(order) == {0, Cardinality({i \in 1..Len(order) : order[i][1] = "uuid"})}

Keep(order, q) == SelectSeq(order, LAMBDA m : m \in DOMAIN q)

\* where('status').equals('pending').toArray(): the pending keys, in
\* primary-key order
getPendingMutations ==
  SelectSeq(keyOrder, LAMBDA m : mutations[m].status = "pending")

markMutationSynced(q, m) == Update(q, m, [status |-> "synced"])

\* variant: the retry count grows and the status never becomes failed
markMutationFailed_NoCeiling(q, m) ==
  IF m \notin DOMAIN q THEN q
  ELSE Update(q, m, [status |-> "pending", retries |-> q[m].retries + 1,
                     lastError |-> "error"])

markMutationFailed(q, m) ==
  IF m \notin DOMAIN q THEN q
  ELSE LET newRetries == q[m].retries + 1
           status == IF newRetries >= maxRetries THEN "failed" ELSE "pending"
       IN Update(q, m, [status |-> status, retries |-> newRetries,
                        lastError |-> "error"])

\* variant: the whole queue is cleared at the end of a pass
clearSyncedMutations_All(q) == Empty

clearSyncedMutations(q) ==
  [m \in {k \in DOMAIN q : q[k].status # "synced"} |-> q[m]]

\* ---------------------------------------------------------- initial state
SeedQuantity == 1

\* the store after the first sign-in: one product, known to both sides
SeedProducts ==
  Put(Empty, SeedProduct,
      [quantity |-> SeedQuantity, synced |-> TRUE, lastSyncedAt |-> 0])

\* the application at rest, with `written` UI writes behind it
InitStore(limits, P, S, Q, order, made, written) ==
  /\ products = P
  /\ sales = S
  /\ mutations = Q
  /\ keyOrder = order
  /\ syncMeta = [lastSyncedAt |-> 0]
  /\ rProducts = Put(Empty, SeedProduct, [quantity |-> SeedQuantity])
  /\ rSales = Empty
  /\ syncInProgress = FALSE
  /\ lastSyncAttempt = 0
  /\ pc = "idle"
  /\ active = 0
  /\ returned = "none"
  /\ pull = [products |-> TRUE, sales |-> TRUE]
  /\ snap = <<>>
  /\ idMappings = Empty
  /\ idx = 1
  /\ failedCount = 0
  /\ pushResult = [success |-> TRUE, idMappings |-> Empty]
  /\ now = SYNC_DEBOUNCE_MS
  /\ nextUuid = 0
  /\ nextLocal = made
  /\ nextMut = Len(order)
  /\ sent = <<>>
  /\ cycle = 0
  /\ writes = written
  /\ faults = 0
  /\ wroteInCycle = 0
  /\ startProducts = products
  /\ startSales = sales
  /\ lim = limits

\* watchOnlineStatus has not been called: no listener, no timer, no probe
Unwatched ==
  /\ navigatorOnLine = TRUE
  /\ autoSyncInterval = FALSE
  /\ syncScheduled = FALSE
  /\ probes = 0
  /\ recheck = 0
  /\ retry = 0
  /\ probeOk = FALSE
  /\ retried = 0
  /\ trigger = "none"
  /\ signals = 0
  /\ issued = 0
  /\ intervals = 0
  /\ listeners = Empty

\* no page has computed anything yet
NoView == [quantity |-> 0, low_stock_level |-> 0, label |-> "none", alert |-> "none"]

InitWith(limits, P, S, Q, order, made, written) ==
  /\ InitStore(limits, P, S, Q, order, made, written)
  /\ Unwatched
  /\ view = NoView

FaultKinds == {"error", "notfound", "rejected", "lost", "throw"}

Init ==
  InitWith([writes |-> MaxWrites, midWrites |-> 0, idleWrites |-> TRUE,
             midAt |-> {}, cycles |-> MaxCycles,
            faults |-> MaxFaults, kinds |-> FaultKinds, ticks |-> MaxTicks],
           SeedProducts, Empty, Empty, <<>>, 0, 0)

\* the store after two offline writes: a product created (Products.tsx
\* handleSubmit) and the seed product restocked (handleRestock)
QueuedProducts ==
  Put(Update(SeedProducts, SeedProduct, [quantity |-> SeedQuantity + 1]),
      LocalId(1), [quantity |-> 1, synced |-> FALSE])

QueuedMutations ==
  Put(Put(Empty, MutId(1),
          NewMutation(1, "products", "INSERT", LocalId(1),
                      [id |-> LocalId(1), quantity |-> 1, synced |-> FALSE])),
      MutId(2),
      NewMutation(2, "products", "UPDATE", SeedProduct,
                  [quantity |-> SeedQuantity + 1]))

InitQueued(limits) ==
  \E order \in {<<MutId(1), MutId(2)>>, <<MutId(2), MutId(1)>>} :
    InitWith(limits, QueuedProducts, Empty, QueuedMutations, order, 1, 2)

\* the store after two other offline writes: a product created and one
\* unit of the seed product sold (Sales.tsx completeSale)
SoldProducts ==
  Put(Update(SeedProducts, SeedProduct,
             [quantity |-> SeedQuantity - 1, synced |-> FALSE]),
      LocalId(1), [quantity |-> 1, synced |-> FALSE])

SoldSales ==
  Put(Empty, SaleId(2),
      [product_id |-> SeedProduct, quantity_sold |-> 1, synced |-> FALSE])

SoldMutations ==
  Put(Put(Put(Empty, MutId(1),
              NewMutation(1, "products", "INSERT", LocalId(1),
                          [id |-> LocalId(1), quantity |-> 1, synced |-> FALSE])),
          MutId(2),
          NewMutation(2, "products", "UPDATE", SeedProduct,
                      [quantity |-> SeedQuantity - 1])),
      MutId(3),
      NewMutation(3, "sales", "INSERT", SaleId(2),
                  [id |-> SaleId(2), product_id |-> SeedProduct,
                   quantity_sold |-> 1, synced |-> FALSE]))

InitSold(limits) ==
  \E order \in {<<MutId(1), MutId(2), MutId(3)>>, <<MutId(3), MutId(2), MutId(1)>>} :
    InitWith(limits, SoldProducts, SoldSales, SoldMutations, order, 2, 2)

\* ------------------------------------------------------------- UI writes
\* a write is possible when the limits of the behaviour allow one more
CanWrite ==
  /\ writes < lim.writes
  /\ IF pc = "idle" THEN lim.idleWrites
     ELSE pc \in lim.midAt /\ wroteInCycle < lim.midWrites

uiFrame ==
  /\ writes' = writes + 1
  /\ wroteInCycle' = IF pc = "idle" THEN wroteInCycle ELSE wroteInCycle + 1
  /\ UNCHANGED <<syncMeta, flagVars, runVars, now, nextUuid,
                 sent, cycle, faults, startProducts, startSales, lim, watchVars, view>>

\* variant: the id of the latest mutation is handed out again
NewMutationId_Reused == MutId(nextMut)

\* id: uuidv4()
NewMutationId == MutId(nextMut + 1)

\* enqueueMutation at position pos of the primary-key order
Enqueue(pos, table, operation, recordId, payload) ==
  /\ mutations' = Put(mutations, NewMutationId,
                      NewMutation(nextMut + 1, table, operation, recordId, payload))
  /\ keyOrder' = IF NewMutationId \in DOMAIN mutations THEN keyOrder
                 ELSE InsertAt(keyOrder, pos, NewMutationId)
  /\ nextMut' = nextMut + 1

\* offlineQueue.ts enqueueMutation called on its own
enqueueMutation(table, operation, recordId, payload, pos) ==
  /\ CanWrite
  /\ Enqueue(pos, table, operation, recordId, payload)
  /\ UNCHANGED <<products, sales, remoteVars, nextLocal>>
  /\ uiFrame

\* Products.tsx handleSubmit, offline branch, new product
CreateProduct(q, pos) ==
  /\ CanWrite
  /\ LET localId == LocalId(nextLocal + 1)
         productRecord == [id |-> localId, quantity |-> q, synced |-> FALSE]
     IN /\ products' = Put(products, localId, Without(productRecord, {"id"}))
        /\ Enqueue(pos, "products", "INSERT", localId, productRecord)
  /\ nextLocal' = nextLocal + 1
  /\ UNCHANGED <<sales, remoteVars>>
  /\ uiFrame

\* Products.tsx handleSubmit, the record saved and queued by the offline branch
productRecord(p, q) == [id |-> p, quantity |-> q, synced |-> FALSE]

\* Products.tsx handleSubmit with editingProduct set: the form's quantity goes
\* to the backend and to the local store as synced when the browser is
\* online and the request succeeds, to the local store and the queue otherwise
handleSubmit(p, q, online, pos) ==
  /\ CanWrite
  /\ p \in DOMAIN products
  /\ IF online
     THEN /\ rProducts' = Update(rProducts, p, [quantity |-> q])
          /\ products' = Put(products, p, [quantity |-> q, synced |-> TRUE])
          /\ UNCHANGED <<mutations, keyOrder, nextMut>>
     ELSE /\ products' = Put(products, p, Without(productRecord(p, q), {"id"}))
          /\ Enqueue(pos, "products", "UPDATE", p, productRecord(p, q))
          /\ UNCHANGED rProducts
  /\ UNCHANGED <<sales, rSales, nextLocal>>
  /\ uiFrame

\* Products.tsx handleRestock
handleRestock(p, n, pos) ==
  /\ CanWrite
  /\ p \in DOMAIN products
  /\ LET newQuantity == products[p].quantity + n
     IN /\ products' = Update(products, p, [quantity |-> newQuantity])
        /\ Enqueue(pos, "products", "UPDATE", p, [quantity |-> newQuantity])
  /\ UNCHANGED <<sales, remoteVars, nextLocal>>
  /\ uiFrame

\* Products.tsx handleDelete
handleDelete(p, pos) ==
  /\ CanWrite
  /\ p \in DOMAIN products
  /\ products' = Remove(products, p)
  /\ Enqueue(pos, "products", "DELETE", p, Empty)
  /\ UNCHANGED <<sales, remoteVars, nextLocal>>
  /\ uiFrame

\* Sales.tsx completeSale, a cart of one item of quantity 1
completeSale(p, pos1, pos2) ==
  /\ CanWrite
  /\ p \in DOMAIN products
  /\ products[p].quantity >= 1
  /\ LET newQuantity == products[p].quantity - 1
         saleId == SaleId(nextLocal + 1)
         saleRecord == [id |-> saleId, product_id |-> p, quantity_sold |-> 1,
                        synced |-> FALSE]
         m1 == MutId(nextMut + 1)
         m2 == MutId(nextMut + 2)
         q1 == Put(mutations, m1,
                   NewMutation(nextMut + 1, "products", "UPDATE", p,
                               [quantity |-> newQuantity]))
     IN /\ products' = Update(products, p, [quantity |-> newQuantity, synced |-> FALSE])
        /\ sales' = Put(sales, saleId, Without(saleRecord, {"id"}))
        /\ mutations' = Put(q1, m2,
                            NewMutation(nextMut + 2, "sales", "INSERT", saleId, saleRecord))
        /\ keyOrder' = InsertAt(InsertAt(keyOrder, pos1, m1), pos2, m2)
  /\ nextMut' = nextMut + 2
  /\ nextLocal' = nextLocal + 1
  /\ UNCHANGED remoteVars
  /\ uiFrame

\* Dashboard.tsx "Clear Sales Data"
ClearSalesData(online) ==
  /\ CanWrite
  /\ \/ sales # Empty
     \/ \E m \in DOMAIN mutations : mutations[m].table = "sales"
     \/ online /\ rSales # Empty
  /\ sales' = Empty
  /\ mutations' = [m \in {k \in DOMAIN mutations : mutations[k].table # "sales"}
                     |-> mutations[m]]
  /\ keyOrder' = Keep(keyOrder, mutations')
  /\ rSales' = IF online THEN Empty ELSE rSales
  /\ UNCHANGED <<products, rProducts, nextLocal, nextMut>>
  /\ uiFrame

\* the wall clock; time is seen to pass between two cycles and during the
\* image upload, the phase that moves the most data
Tick ==
  /\ pc \in {"idle", "images"}
  /\ now + TickMs <= SYNC_DEBOUNCE_MS + lim.ticks * TickMs
  /\ now' = now + TickMs
  /\ UNCHANGED <<storeVars, remoteVars, flagVars, runVars,
                 nextUuid, nextLocal, nextMut, histVars, watchVars, view>>

\* ----------------------------------------------------------- environment
\* what a request to the backend can come to: accepted, rejected with an
\* error, answered with "relation not found", or applied by the backend while
\* the client sees an error (the response is lost)
Outcomes(kinds) ==
  IF faults < lim.faults THEN {"ok"} \cup (kinds \cap lim.kinds) ELSE {"ok"}

countFault(o) == faults' = IF o = "ok" THEN faults ELSE faults + 1

\* ------------------------------------------------------- performFullSync
\* the two early returns of performFullSync
\* variant: the debounce alone, without the test of syncInProgress
SyncRejected_NoMutex == now - lastSyncAttempt < SYNC_DEBOUNCE_MS

SyncRejected == now - lastSyncAttempt < SYNC_DEBOUNCE_MS \/ syncInProgress

performFullSyncCall ==
  /\ SyncRejected \/ cycle < lim.cycles
  /\ IF SyncRejected
     THEN /\ returned' = "false"
          /\ UNCHANGED <<storeVars, remoteVars, flagVars, pc, active, pull, snap,
                         idMappings, idx, failedCount, pushResult, envVars,
                         histVars, view>>
     ELSE /\ syncInProgress' = TRUE
          /\ lastSyncAttempt' = now
          /\ active' = active + 1
          /\ pc' = "pullProducts"
          /\ cycle' = cycle + 1
          /\ wroteInCycle' = 0
          /\ startProducts' = products
          /\ startSales' = sales
          /\ UNCHANGED <<storeVars, remoteVars, returned, pull, snap, idMappings,
                         idx, failedCount, pushResult, envVars, sent,
                         writes, faults, lim, view>>

\* performFullSync called from the UI (OfflineIndicator.tsx) or a script
performFullSync ==
  /\ performFullSyncCall
  /\ UNCHANGED watchVars

\* ------------------------------------------------------------ pull phase
\* the row a pull stores for a remote row
Pulled(row) == Merge(row, [synced |-> TRUE, lastSyncedAt |-> now])

\* variant: the local table is replaced by the remote result
MergeRemote_Replace(local, remote) ==
  [id \in DOMAIN remote |-> Pulled(remote[id])]

\* variant: a row that is already local is not overwritten
MergeRemote_LocalWins(local, remote) ==
  [id \in DOMAIN local \cup DOMAIN remote |->
     IF id \in DOMAIN local THEN local[id] ELSE Pulled(remote[id])]

\* variant: the remote stock is added to the local stock
MergeRemote_Adds(local, remote) ==
  [id \in DOMAIN local \cup DOMAIN remote |->
     IF id \notin DOMAIN remote THEN local[id]
     ELSE IF id \in DOMAIN local /\ "quantity" \in DOMAIN remote[id]
     THEN Merge(Pulled(remote[id]),
                [quantity |-> local[id].quantity + remote[id].quantity])
     ELSE Pulled(remote[id])]

\* variant: local rows that were never synced are dropped by the merge
MergeRemote_DropsUnsynced(local, remote) ==
  [id \in {l \in DOMAIN local : local[l].synced} \cup DOMAIN remote |->
     IF id \in DOMAIN remote THEN Pulled(remote[id]) ELSE local[id]]

\* the merge loop: put every remote row, keep every other local row
MergeRemote(local, remote) ==
  [id \in DOMAIN local \cup DOMAIN remote |->
     IF id \in DOMAIN remote THEN Pulled(remote[id]) ELSE local[id]]

\* variant: relation-not-found is reported like any other error
PullSuccess_Strict(o) == o = "ok"

\* what a pull returns: false on an error other than relation-not-found
PullSuccess(o) == o # "error"

\* variant: a failed pull ends the cycle's work
AfterPull_Abort(ok, next) == IF ok THEN next ELSE "stamp"

\* performFullSync keeps the result of a pull and goes on to the next phase
AfterPull(ok, next) == next

syncProductsFromSupabase ==
  /\ pc = "pullProducts"
  /\ \E o \in Outcomes({"error", "notfound"}) :
       /\ products' = IF o = "ok" THEN MergeRemote(products, rProducts) ELSE products
       /\ pull' = [pull EXCEPT !.products = PullSuccess(o)]
       /\ pc' = AfterPull(PullSuccess(o), "pullSales")
       /\ countFault(o)
  /\ UNCHANGED <<sales, mutations, keyOrder, syncMeta, remoteVars, flagVars, active, returned,
                 snap, idMappings, idx, failedCount, pushResult, envVars,
                 sent, cycle, writes, wroteInCycle,
                 startProducts, startSales, lim, watchVars, view>>

syncSalesFromSupabase ==
  /\ pc = "pullSales"
  /\ \E o \in Outcomes({"error", "notfound"}) :
       /\ sales' = IF o = "ok" THEN MergeRemote(sales, rSales) ELSE sales
       /\ pull' = [pull EXCEPT !.sales = PullSuccess(o)]
       /\ pc' = AfterPull(PullSuccess(o), "push")
       /\ countFault(o)
  /\ UNCHANGED <<products, mutations, keyOrder, syncMeta, remoteVars, flagVars, active, returned,
                 snap, idMappings, idx, failedCount, pushResult, envVars,
                 sent, cycle, writes, wroteInCycle,
                 startProducts, startSales, lim, watchVars, view>>

\* ------------------------------------------------------------ push phase
RECURSIVE SortedSeq(_)
SortedSeq(S) ==
  IF S = {} THEN <<>>
  ELSE LET least == CHOOSE x \in S : \A y \in S : x <= y
       IN <<least>> \o SortedSeq(S \ {least})

\* the in-memory objects getPendingMutations returns
PendingSnapshot ==
  LET ids == getPendingMutations
  IN [i \in 1..Len(ids) |-> Merge(mutations[ids[i]], [id |-> ids[i]])]

\* STEP 1: a fresh uuid for every pending products INSERT of a local_ record
PreMap(seq) ==
  LET L == {i \in 1..Len(seq) : /\ seq[i].table = "products"
                                 /\ seq[i].operation = "INSERT"
                                 /\ startsWith(seq[i].recordId, "local_")}
      at(r) == CHOOSE i \in L : seq[i].recordId = r
  IN [r \in {seq[i].recordId : i \in L} |->
        Uuid(nextUuid + Cardinality({j \in L : j <= at(r)}))]

\* STEP 2: the sales mutations whose payload references a pre-mapped product
Rewritten(seq, map) ==
  {i \in 1..Len(seq) : /\ seq[i].table = "sales"
                        /\ "product_id" \in DOMAIN seq[i].payload
                        /\ seq[i].payload.product_id \in DOMAIN map}

\* variant: step 2 leaves the payloads as they were queued
RewritePayloads_Stale(seq, map) == seq

RewritePayloads(seq, map) ==
  [i \in 1..Len(seq) |->
     IF i \in Rewritten(seq, map)
     THEN [seq[i] EXCEPT !.payload =
             Merge(@, [product_id |-> map[seq[i].payload.product_id]])]
     ELSE seq[i]]

RewriteLocalSales(seq, map) ==
  [s \in DOMAIN sales |->
     LET I == {i \in Rewritten(seq, map) :
                 seq[i].recordId = s /\ startsWith(s, "sale_")}
     IN IF I = {} THEN sales[s]
        ELSE LET last == CHOOSE i \in I : \A j \in I : j <= i
             IN Merge(sales[s], [product_id |-> map[seq[last].payload.product_id]])]

\* variant: the preflight result is ignored
PreflightAborts_Never(o) == FALSE

\* the preflight check: relation-not-found (or a throw) aborts the push
PreflightAborts(o) == o = "notfound"

\* pushPendingMutations up to the apply loop: snapshot, preflight, steps 1, 2
PushBegin ==
  /\ pc = "push"
  /\ IF getPendingMutations = <<>>
     THEN /\ pushResult' = [success |-> TRUE, idMappings |-> Empty]
          /\ pc' = "images"
          /\ UNCHANGED <<sales, snap, idMappings, idx, failedCount, nextUuid, faults>>
     ELSE \E o \in Outcomes({"notfound"}) :
            /\ countFault(o)
            /\ IF PreflightAborts(o)
               THEN /\ pushResult' = [success |-> FALSE, idMappings |-> Empty]
                    /\ pc' = "images"
                    /\ UNCHANGED <<sales, snap, idMappings, idx, failedCount, nextUuid>>
               ELSE LET seq == PendingSnapshot
                        map == PreMap(seq)
                    IN /\ idMappings' = map
                       /\ nextUuid' = nextUuid + Cardinality(DOMAIN map)
                       /\ snap' = RewritePayloads(seq, map)
                       /\ sales' = RewriteLocalSales(seq, map)
                       /\ idx' = 1
                       /\ failedCount' = 0
                       /\ pc' = "apply"
                       /\ UNCHANGED pushResult
  /\ UNCHANGED <<products, mutations, keyOrder, syncMeta, remoteVars, flagVars, active, returned,
                 pull, now, nextLocal, nextMut,
                 sent, cycle, writes, wroteInCycle,
                 startProducts, startSales, lim, watchVars, view>>

\* the placeholder prefix of a collection
Prefix(table) == IF table = "products" THEN "local_" ELSE "sale_"

\* the id a mutation is transmitted under
TargetId(mutation) ==
  LET rid == mutation.recordId
  IN IF mutation.operation = "INSERT"
     THEN IF ~startsWith(rid, Prefix(mutation.table)) THEN rid
          ELSE IF mutation.table = "products" THEN idMappings[rid]
          ELSE Uuid(nextUuid + 1)
     ELSE IF rid \in DOMAIN idMappings THEN idMappings[rid] ELSE rid

\* the payload a mutation is transmitted with
FinalPayload(mutation) ==
  IF mutation.operation = "INSERT" /\ startsWith(mutation.recordId, Prefix(mutation.table))
  THEN Without(Merge(mutation.payload, [id |-> TargetId(mutation)]), {"synced"})
  ELSE mutation.payload

\* the backend applying one request to one table
ApplyRemote(table, operation, id, payload) ==
  CASE operation = "INSERT" -> Put(table, id, RemoteRow(payload))
    [] operation = "UPDATE" -> Update(table, id, RemoteRow(payload))
    [] operation = "DELETE" -> Remove(table, id)

\* primary-key conflict: the backend rejects an insert under an existing id
Conflict(table, operation, id) == operation = "INSERT" /\ id \in DOMAIN table

\* the local store after the backend has accepted a request
ApplyLocal(table, mutation, id) ==
  LET rid == mutation.recordId
      stamp == [synced |-> TRUE, lastSyncedAt |-> now]
  IN CASE mutation.operation = "INSERT" ->
            IF startsWith(rid, Prefix(mutation.table))
            THEN IF rid \in DOMAIN table
                 THEN Put(Remove(table, rid), id, Merge(table[rid], stamp))
                 ELSE table
            ELSE Update(table, rid, stamp)
       [] mutation.operation = "UPDATE" -> Update(table, id, stamp)
       [] mutation.operation = "DELETE" -> table

\* UPDATE / DELETE of a record that still has a placeholder id: not sent
Skipped(mutation) ==
  /\ mutation.operation # "INSERT"
  /\ startsWith(mutation.recordId, Prefix(mutation.table))

\* variant: the error of one mutation ends the loop
NextIdx_StopOnFailure(ok) == IF ok THEN idx + 1 ELSE Len(snap) + 1

\* the loop goes on to the next mutation, the error of one is caught inside
NextIdx(ok) == idx + 1

\* STEP 3: one iteration of the apply loop
PushApply ==
  /\ pc = "apply"
  /\ idx <= Len(snap)
  /\ LET mutation == snap[idx]
         t == mutation.table
         id == TargetId(mutation)
         payload == FinalPayload(mutation)
         remote == IF t = "products" THEN rProducts ELSE rSales
         local == IF t = "products" THEN products ELSE sales
         freshSale == /\ t = "sales" /\ mutation.operation = "INSERT"
                      /\ startsWith(mutation.recordId, "sale_")
     IN IF Skipped(mutation)
        THEN /\ mutations' = markMutationSynced(mutations, mutation.id)
             /\ idx' = NextIdx(TRUE)
             /\ UNCHANGED <<products, sales, remoteVars, idMappings, failedCount,
                            nextUuid, sent, faults>>
        ELSE \E o \in Outcomes({"rejected", "lost"}) :
               LET conflict == Conflict(remote, mutation.operation, id)
                   applied == o \in {"ok", "lost"} /\ ~conflict
                   acked == o = "ok" /\ ~conflict
                   remote2 == IF applied
                              THEN ApplyRemote(remote, mutation.operation, id, payload)
                              ELSE remote
                   local2 == IF acked THEN ApplyLocal(local, mutation, id) ELSE local
               IN /\ countFault(o)
                  /\ idx' = NextIdx(acked)
                  /\ idMappings' = IF freshSale
                                   THEN Put(idMappings, mutation.recordId, id)
                                   ELSE idMappings
                  /\ nextUuid' = IF freshSale THEN nextUuid + 1 ELSE nextUuid
                  /\ rProducts' = IF t = "products" THEN remote2 ELSE rProducts
                  /\ rSales' = IF t = "sales" THEN remote2 ELSE rSales
                  /\ products' = IF t = "products" THEN local2 ELSE products
                  /\ sales' = IF t = "sales" THEN local2 ELSE sales
                  /\ mutations' = IF acked
                                  THEN markMutationSynced(mutations, mutation.id)
                                  ELSE markMutationFailed(mutations, mutation.id)
                  /\ failedCount' = IF acked THEN failedCount ELSE failedCount + 1
                  /\ sent' = Append(sent,
                       [mut |-> mutation.id, table |-> t,
                        operation |-> mutation.operation,
                        recordId |-> mutation.recordId, id |-> id,
                        payload |-> payload, timestamp |-> mutation.timestamp,
                        applied |-> applied, acked |-> acked, cycle |-> cycle])
  /\ UNCHANGED <<keyOrder, syncMeta, flagVars, pc, active, returned, pull, snap, pushResult,
                 now, nextLocal, nextMut,
                 cycle, writes, wroteInCycle,
                 startProducts, startSales, lim, watchVars, view>>

\* the end of pushPendingMutations: clearSyncedMutations and the result
PushEnd ==
  /\ pc = "apply"
  /\ idx > Len(snap)
  /\ mutations' = clearSyncedMutations(mutations)
  /\ keyOrder' = Keep(keyOrder, mutations')
  /\ pushResult' = [success |-> failedCount = 0, idMappings |-> idMappings]
  /\ pc' = "images"
  /\ UNCHANGED <<products, sales, syncMeta, remoteVars, flagVars, active, returned,
                 pull, snap, idMappings, idx, failedCount, envVars, histVars, watchVars, view>>

\* ------------------------------------------------------ image sync phase
\* syncImagesToSupabase: touches db.images and the object storage only, and
\* catches every error
\* variant: the fixup is run after every push
NeedsFixup_Always == TRUE

\* Object.keys(pushResult.idMappings).length > 0
NeedsFixup == DOMAIN pushResult.idMappings # {}

syncImagesToSupabase ==
  /\ pc = "images"
  /\ pc' = IF NeedsFixup THEN "fixup" ELSE "stamp"
  /\ UNCHANGED <<storeVars, remoteVars, flagVars, active, returned, pull, snap,
                 idMappings, idx, failedCount, pushResult, envVars, histVars, watchVars, view>>

\* ---------------------------------------------------------- fixup phase
\* primary-key order of db.sales: uuids sort before sale_ placeholders
KeyBefore(a, b) ==
  \/ a[1] = "uuid" /\ b[1] # "uuid"
  \/ a[1] = b[1] /\ a[2] <= b[2]

\* the sales updateRemappedReferences rewrites
Remapped(map) == {s \in DOMAIN sales : sales[s].product_id \in DOMAIN map}

updateRemappedReferences ==
  /\ pc = "fixup"
  /\ pc' = "stamp"
  /\ LET map == pushResult.idMappings
         hit == Remapped(map)
         rank(s) == Cardinality({t \in hit : KeyBefore(t, s)})
         key(s) == RemapId(nextMut + rank(s))
         new == SortedSeq({nextMut + rank(s) : s \in hit})
     IN /\ sales' = [s \in DOMAIN sales |->
                       IF s \in hit
                       THEN Merge(sales[s], [product_id |-> map[sales[s].product_id]])
                       ELSE sales[s]]
        /\ mutations' =
             [m \in DOMAIN mutations \cup {key(s) : s \in hit} |->
                IF m \in DOMAIN mutations THEN mutations[m]
                ELSE LET s == CHOOSE t \in hit : key(t) = m
                     IN NewMutation(m[2], "sales", "UPDATE", s,
                                    [product_id |-> map[sales[s].product_id]])]
        /\ keyOrder' = keyOrder \o [i \in 1..Len(new) |-> RemapId(new[i])]
        /\ nextMut' = nextMut + Cardinality(hit)
  /\ UNCHANGED <<products, syncMeta, remoteVars, flagVars, active, returned, pull,
                 snap, idMappings, idx, failedCount, pushResult,
                 now, nextUuid, nextLocal, histVars, watchVars, view>>

\* ------------------------------------------- stamp, return and `finally`
\* the `finally` block: the value of syncInProgress once the call is over
\* variant: the flag is reset on the normal path only, without `finally`
FlagAfter_NoFinally(o) == o = "throw"

FlagAfter(o) == FALSE

Finish ==
  /\ pc = "stamp"
  /\ \E o \in Outcomes({"throw"}) :
       /\ countFault(o)
       /\ syncMeta' = IF o = "ok" THEN Merge(syncMeta, [lastSyncedAt |-> now])
                      ELSE syncMeta
       /\ returned' = IF o = "ok" /\ pull.products /\ pull.sales /\ pushResult.success
                      THEN "true" ELSE "false"
       /\ active' = active - 1
       /\ syncInProgress' = FlagAfter(o)
  /\ pc' = "idle"
  /\ pull' = [products |-> TRUE, sales |-> TRUE]
  /\ snap' = <<>>
  /\ idMappings' = Empty
  /\ idx' = 1
  /\ failedCount' = 0
  /\ pushResult' = [success |-> TRUE, idMappings |-> Empty]
  /\ UNCHANGED <<products, sales, mutations, keyOrder, remoteVars, lastSyncAttempt, envVars,
                 sent, cycle, writes, wroteInCycle,
                 startProducts, startSales, lim, watchVars, view>>

\* ------------------------------------------------------- specifications
Quantities == {1}

UserWrite ==
  \/ \E q \in Quantities, pos \in UuidSlots(keyOrder) : CreateProduct(q, pos)
  \/ \E p \in DOMAIN products, pos \in UuidSlots(keyOrder) : handleRestock(p, 1, pos)
  \/ \E p \in DOMAIN products, pos \in UuidSlots(keyOrder) : handleDelete(p, pos)
  \/ \E p \in DOMAIN products, pos1 \in UuidSlots(keyOrder) :
       \E pos2 \in UuidSlots(InsertAt(keyOrder, pos1, MutId(nextMut + 1))) :
         completeSale(p, pos1, pos2)
  \/ \E online \in BOOLEAN : ClearSalesData(online)

SyncStep ==
  \/ syncProductsFromSupabase
  \/ syncSalesFromSupabase
  \/ PushBegin
  \/ PushApply
  \/ PushEnd
  \/ syncImagesToSupabase
  \/ updateRemappedReferences
  \/ Finish

Next ==
  \/ UserWrite
  \/ performFullSync
  \/ SyncStep
  \/ Tick

Spec == Init /\ [][Next]_vars

\* offlineQueue.ts getFailedMutations
getFailedMutations == {m \in DOMAIN mutations : mutations[m].status = "failed"}

\* variant: the status is reset and the retry count is kept
retryFailedMutation_KeepsCount(m) ==
  /\ mutations' = IF m \in DOMAIN mutations
                  THEN Put(mutations, m,
                           Without(Merge(mutations[m], [status |-> "pending"]),
                                   {"lastError"}))
                  ELSE mutations
  /\ UNCHANGED <<products, sales, keyOrder, syncMeta, remoteVars, flagVars,
                 runVars, envVars, histVars, watchVars, view>>

\* offlineQueue.ts retryFailedMutation, called by an operator
retryFailedMutation(m) ==
  /\ mutations' = IF m \in DOMAIN mutations
                  THEN Put(mutations, m,
                           Without(Merge(mutations[m],
                                         [status |-> "pending", retries |-> 0]),
                                   {"lastError"}))
                  ELSE mutations
  /\ UNCHANGED <<products, sales, keyOrder, syncMeta, remoteVars, flagVars,
                 runVars, envVars, histVars, watchVars, view>>

\* the queue under repeated failure: no further UI writes, requests fail
InitRetry ==
  InitQueued([writes |-> 2, midWrites |-> 0, idleWrites |-> TRUE,
             midAt |-> {}, cycles |-> RetryCycles,
              faults |-> RetryCycles, kinds |-> {"rejected"}, ticks |-> RetryCycles])

NextRetry ==
  \/ performFullSync
  \/ SyncStep
  \/ Tick
  \/ \E m \in getFailedMutations : retryFailedMutation(m)

SpecRetry == InitRetry /\ [][NextRetry]_vars

\* the orchestrator under fair scheduling: every awaited promise settles
\* and its continuation runs
InitLive ==
  InitQueued([writes |-> 2, midWrites |-> 0, idleWrites |-> TRUE,
             midAt |-> {}, cycles |-> LiveCycles,
              faults |-> LiveCycles, kinds |-> FaultKinds, ticks |-> LiveCycles])

NextLive ==
  \/ performFullSync
  \/ SyncStep
  \/ Tick

SpecLive == InitLive /\ [][NextLive]_vars /\ WF_vars(SyncStep)

\* the queue left to the periodic sync: no UI write, a provisioned backend
\* that rejects some requests, a sync started whenever the debounce allows
InitDrain ==
  InitSold([writes |-> 2, midWrites |-> 0, idleWrites |-> TRUE,
            midAt |-> {}, cycles |-> DrainCycles,
            faults |-> DrainCycles, kinds |-> {"rejected"},
            ticks |-> DrainCycles])

NextDrain ==
  \/ performFullSync
  \/ SyncStep
  \/ Tick

SpecDrain ==
  /\ InitDrain /\ [][NextDrain]_vars
  /\ WF_vars(SyncStep) /\ WF_vars(performFullSync) /\ WF_vars(Tick)

\* a request to the backend that is never answered: the supabase calls of
\* the pull, the preflight and the apply pass are awaited without a timeout
\* or an abort signal, so the call that awaits one never resumes
AwaitsBackend ==
  \/ pc \in {"pullProducts", "pullSales"}
  \/ pc = "push" /\ getPendingMutations # <<>>
  \/ pc = "apply" /\ idx <= Len(snap) /\ ~Skipped(snap[idx])

NoResponse ==
  /\ AwaitsBackend
  /\ "hang" \in Outcomes({"hang"})
  /\ pc' = "hung"
  /\ faults' = faults + 1
  /\ UNCHANGED <<storeVars, remoteVars, flagVars, active, returned, pull, snap,
                 idMappings, idx, failedCount, pushResult, envVars,
                 sent, cycle, writes, wroteInCycle, startProducts, startSales, lim, watchVars, view>>

\* the orchestrator against a backend that may stop answering
InitHang ==
  InitQueued([writes |-> 2, midWrites |-> 0, idleWrites |-> TRUE,
             midAt |-> {}, cycles |-> LiveCycles,
              faults |-> LiveCycles, kinds |-> {"error", "rejected", "hang"},
              ticks |-> LiveCycles])

NextHang ==
  \/ performFullSync
  \/ SyncStep
  \/ NoResponse
  \/ Tick

\* the UI at work while a sync runs: the handlers are separate tasks of the
\* event loop and run between two awaits of performFullSync
InitMid ==
  InitSold([writes |-> 2 + MidWrites, midWrites |-> MidWrites, idleWrites |-> FALSE,
             midAt |-> {"apply"}, cycles |-> 2,
              faults |-> 1, kinds |-> {"rejected"}, ticks |-> 1])

SpecMid == InitMid /\ [][Next]_vars

\* the orchestrator against a backend whose tables are not provisioned:
\* a request is answered with rows or with relation-not-found
InitNoTable ==
  InitQueued([writes |-> 2, midWrites |-> 0, idleWrites |-> TRUE,
             midAt |-> {}, cycles |-> LiveCycles,
              faults |-> LiveCycles, kinds |-> {"notfound"}, ticks |-> LiveCycles])

SpecNoTable == InitNoTable /\ [][NextLive]_vars

SpecHang == InitHang /\ [][NextHang]_vars /\ WF_vars(SyncStep)

\* the UI at work while any phase of a sync awaits: a write lands between
\* the start of the cycle and the puts of a pull, or during the apply pass
InitRace ==
  InitQueued([writes |-> 2 + MidWrites, midWrites |-> MidWrites, idleWrites |-> FALSE,
              midAt |-> {"pullProducts", "pullSales", "apply"}, cycles |-> 1,
              faults |-> 0, kinds |-> {}, ticks |-> 0])

RaceWrite ==
  \/ \E q \in Quantities, pos \in UuidSlots(keyOrder) : CreateProduct(q, pos)
  \/ \E p \in DOMAIN products, pos \in UuidSlots(keyOrder) : handleRestock(p, 1, pos)
  \/ \E p \in DOMAIN products, pos \in UuidSlots(keyOrder) : handleDelete(p, pos)
  \/ \E p \in DOMAIN products, pos1 \in UuidSlots(keyOrder) :
       \E pos2 \in UuidSlots(InsertAt(keyOrder, pos1, MutId(nextMut + 1))) :
         completeSale(p, pos1, pos2)

NextRace ==
  \/ RaceWrite
  \/ performFullSync
  \/ SyncStep

SpecRace == InitRace /\ [][NextRace]_vars

\* ------------------------------------------------- connectivity watcher
\* startAutoSync / stopAutoSync: whether the module's timer is set afterwards
startAutoSync == TRUE

\* variant: the timer is left as it is
stopAutoSync_Keeps == autoSyncInterval

stopAutoSync == FALSE

\* the timers alive after startAutoSync / after stopAutoSync
IntervalsAfterStart == IF autoSyncInterval THEN intervals ELSE intervals + 1

IntervalsAfterStop == IF autoSyncInterval THEN intervals - 1 ELSE intervals

\* attemptSync up to its await: one more probe in flight
IssueProbe ==
  /\ issued < lim.probes
  /\ probes' = probes + 1
  /\ issued' = issued + 1

\* window 'online' event
handleOnline ==
  /\ ~navigatorOnLine
  /\ signals < lim.signals
  /\ navigatorOnLine' = TRUE
  /\ signals' = signals + 1
  /\ autoSyncInterval' = startAutoSync
  /\ intervals' = IntervalsAfterStart
  /\ IssueProbe
  /\ recheck' = recheck + 1
  /\ probeOk' = FALSE
  /\ retried' = 0
  /\ UNCHANGED <<syncScheduled, retry, trigger, listeners, appVars>>

\* window 'offline' event
handleOffline ==
  /\ navigatorOnLine
  /\ signals < lim.signals
  /\ navigatorOnLine' = FALSE
  /\ signals' = signals + 1
  /\ syncScheduled' = FALSE
  /\ autoSyncInterval' = stopAutoSync
  /\ intervals' = IntervalsAfterStop
  /\ UNCHANGED <<probes, recheck, retry, probeOk, retried, trigger, issued,
                 listeners, appVars>>

\* the 100 ms timeout of handleOnline: a second attemptSync
RecheckFires ==
  /\ recheck > 0
  /\ recheck' = recheck - 1
  /\ IF navigatorOnLine /\ ~syncScheduled
     THEN IssueProbe
     ELSE UNCHANGED <<probes, issued>>
  /\ UNCHANGED <<navigatorOnLine, autoSyncInterval, syncScheduled, retry,
                 probeOk, retried, trigger, signals, intervals, listeners, appVars>>

\* attemptSync after its await: the probe was answered within the second
ProbeSucceeds ==
  /\ probes > 0
  /\ probes' = probes - 1
  /\ probeOk' = TRUE
  /\ trigger' = "probe"
  /\ performFullSyncCall
  /\ UNCHANGED <<navigatorOnLine, autoSyncInterval, syncScheduled, recheck, retry,
                 retried, signals, issued, intervals, listeners>>

\* variant: one retry after an online signal, then the watcher gives up
MayRetry_Once == ~syncScheduled /\ retried < 1

\* the test of attemptSync's catch: no retry is scheduled yet
MayRetry == ~syncScheduled

\* attemptSync's catch: the probe failed or was aborted after 1 s
ProbeFails ==
  /\ probes > 0
  /\ probes' = probes - 1
  /\ IF MayRetry
     THEN syncScheduled' = TRUE /\ retry' = retry + 1
     ELSE UNCHANGED <<syncScheduled, retry>>
  /\ UNCHANGED <<navigatorOnLine, autoSyncInterval, recheck,
                 probeOk, retried, trigger, signals, issued, intervals, listeners, appVars>>

\* the 1 s timeout set by attemptSync's catch
RetryFires ==
  /\ retry > 0
  /\ retry' = retry - 1
  /\ syncScheduled' = FALSE
  /\ IF navigatorOnLine
     THEN IssueProbe /\ retried' = retried + 1
     ELSE UNCHANGED <<probes, issued, retried>>
  /\ UNCHANGED <<navigatorOnLine, autoSyncInterval, recheck,
                 probeOk, trigger, signals, intervals, listeners, appVars>>

\* the callback of setInterval; it does nothing when its test fails
IntervalFires ==
  /\ autoSyncInterval
  /\ navigatorOnLine /\ ~syncInProgress
  /\ trigger' = "interval"
  /\ performFullSyncCall
  /\ UNCHANGED <<navigatorOnLine, autoSyncInterval, syncScheduled, probes, recheck, retry,
                 probeOk, retried, signals, issued, intervals, listeners>>

\* watchOnlineStatus: the state it leaves when called with the host online
\* or offline
Mounted(online) ==
  /\ navigatorOnLine = online
  /\ autoSyncInterval = IF online THEN startAutoSync ELSE FALSE
  /\ syncScheduled = FALSE
  /\ probes = IF online THEN 1 ELSE 0
  /\ recheck = 0
  /\ retry = 0
  /\ probeOk = FALSE
  /\ retried = 0
  /\ trigger = "none"
  /\ signals = 0
  /\ issued = IF online THEN 1 ELSE 0
  /\ intervals = IF online THEN 1 ELSE 0
  /\ listeners = Empty

\* the UI handlers next to the watcher: a product is created through the
\* queue when the host is offline, Clear Sales Data reads navigator.onLine
WatchedWrite ==
  \/ ~navigatorOnLine /\ \E q \in Quantities, pos \in UuidSlots(keyOrder) : CreateProduct(q, pos)
  \/ \E p \in DOMAIN products, pos \in UuidSlots(keyOrder) : handleRestock(p, 1, pos)
  \/ \E p \in DOMAIN products, pos \in UuidSlots(keyOrder) : handleDelete(p, pos)
  \/ \E p \in DOMAIN products, pos1 \in UuidSlots(keyOrder) :
       \E pos2 \in UuidSlots(InsertAt(keyOrder, pos1, MutId(nextMut + 1))) :
         completeSale(p, pos1, pos2)
  \/ ClearSalesData(navigatorOnLine)

InitWatch ==
  /\ InitStore([writes |-> 3, midWrites |-> 0, idleWrites |-> TRUE,
                midAt |-> {}, cycles |-> 2, faults |-> 0, kinds |-> {}, ticks |-> 1,
                signals |-> MaxSignals, probes |-> MaxProbes],
               SoldProducts, SoldSales, SoldMutations,
               <<MutId(1), MutId(2), MutId(3)>>, 2, 2)
  /\ \E online \in BOOLEAN : Mounted(online)
  /\ view = NoView

NextWatch ==
  \/ handleOnline
  \/ handleOffline
  \/ RecheckFires
  \/ ProbeSucceeds
  \/ ProbeFails
  \/ RetryFires
  \/ IntervalFires
  \/ WatchedWrite
  \/ SyncStep
  \/ Tick

SpecWatch == InitWatch /\ [][NextWatch]_vars

\* ------------------------------------------------ several watchers
\* the components that call watchOnlineStatus: App.tsx (AppContent) and
\* DataContext.tsx (DataProvider)
CallSites == {"App", "DataContext"}

\* the closure of one call: its listeners are registered, syncScheduled is
\* false, and it has no probe and no timeout of its own yet
NewClosure ==
  [registered |-> TRUE, syncScheduled |-> FALSE, probes |-> 0, recheck |-> 0, retry |-> 0]

Registered == {w \in DOMAIN listeners : listeners[w].registered}

\* watchOnlineStatus called by component w
watchOnlineStatus(w) ==
  /\ w \notin DOMAIN listeners
  /\ IF navigatorOnLine
     THEN /\ issued < lim.probes
          /\ autoSyncInterval' = startAutoSync
          /\ intervals' = IntervalsAfterStart
          /\ issued' = issued + 1
          /\ listeners' = Put(listeners, w, Merge(NewClosure, [probes |-> 1]))
     ELSE /\ listeners' = Put(listeners, w, NewClosure)
          /\ UNCHANGED <<autoSyncInterval, intervals, issued>>
  /\ UNCHANGED <<navigatorOnLine, syncScheduled, probes, recheck, retry, probeOk,
                 retried, trigger, signals, appVars>>

\* the function watchOnlineStatus returned to component w, called by the
\* cleanup of its effect
unsubscribe(w) ==
  /\ w \in Registered
  /\ listeners' = Update(listeners, w, [registered |-> FALSE])
  /\ autoSyncInterval' = stopAutoSync
  /\ intervals' = IntervalsAfterStop
  /\ UNCHANGED <<navigatorOnLine, syncScheduled, probes, recheck, retry, probeOk,
                 retried, trigger, signals, issued, appVars>>

\* window 'online' event: handleOnline of every registered call, in turn
OnlineEvent ==
  /\ ~navigatorOnLine
  /\ signals < lim.signals
  /\ issued + Cardinality(Registered) <= lim.probes
  /\ navigatorOnLine' = TRUE
  /\ signals' = signals + 1
  /\ issued' = issued + Cardinality(Registered)
  /\ IF Registered = {}
     THEN UNCHANGED <<autoSyncInterval, intervals>>
     ELSE autoSyncInterval' = startAutoSync /\ intervals' = IntervalsAfterStart
  /\ listeners' = [w \in DOMAIN listeners |->
                     IF w \in Registered
                     THEN Merge(listeners[w], [probes |-> listeners[w].probes + 1,
                                               recheck |-> listeners[w].recheck + 1])
                     ELSE listeners[w]]
  /\ UNCHANGED <<syncScheduled, probes, recheck, retry, probeOk, retried, trigger, appVars>>

\* window 'offline' event: handleOffline of every registered call, in turn
OfflineEvent ==
  /\ navigatorOnLine
  /\ signals < lim.signals
  /\ navigatorOnLine' = FALSE
  /\ signals' = signals + 1
  /\ IF Registered = {}
     THEN UNCHANGED <<autoSyncInterval, intervals>>
     ELSE autoSyncInterval' = stopAutoSync /\ intervals' = IntervalsAfterStop
  /\ listeners' = [w \in DOMAIN listeners |->
                     IF w \in Registered
                     THEN Merge(listeners[w], [syncScheduled |-> FALSE])
                     ELSE listeners[w]]
  /\ UNCHANGED <<syncScheduled, probes, recheck, retry, probeOk, retried, trigger,
                 issued, appVars>>

\* the 100 ms timeout of w's handleOnline
ListenerRecheck(w) ==
  /\ w \in DOMAIN listeners
  /\ listeners[w].recheck > 0
  /\ IF navigatorOnLine /\ ~listeners[w].syncScheduled
     THEN /\ issued < lim.probes
          /\ issued' = issued + 1
          /\ listeners' = Update(listeners, w, [recheck |-> listeners[w].recheck - 1,
                                                probes |-> listeners[w].probes + 1])
     ELSE /\ listeners' = Update(listeners, w, [recheck |-> listeners[w].recheck - 1])
          /\ UNCHANGED issued
  /\ UNCHANGED <<navigatorOnLine, autoSyncInterval, syncScheduled, probes, recheck, retry,
                 probeOk, retried, trigger, signals, intervals, appVars>>

\* w's attemptSync after its await: the probe was answered
ListenerProbeSucceeds(w) ==
  /\ w \in DOMAIN listeners
  /\ listeners[w].probes > 0
  /\ listeners' = Update(listeners, w, [probes |-> listeners[w].probes - 1])
  /\ trigger' = "probe"
  /\ performFullSyncCall
  /\ UNCHANGED <<navigatorOnLine, autoSyncInterval, syncScheduled, probes, recheck, retry,
                 probeOk, retried, signals, issued, intervals>>

\* w's attemptSync's catch
ListenerProbeFails(w) ==
  /\ w \in DOMAIN listeners
  /\ listeners[w].probes > 0
  /\ listeners' =
       IF ~listeners[w].syncScheduled
       THEN Update(listeners, w, [probes |-> listeners[w].probes - 1,
                                  syncScheduled |-> TRUE,
                                  retry |-> listeners[w].retry + 1])
       ELSE Update(listeners, w, [probes |-> listeners[w].probes - 1])
  /\ UNCHANGED <<navigatorOnLine, autoSyncInterval, syncScheduled, probes, recheck, retry,
                 probeOk, retried, trigger, signals, issued, intervals, appVars>>

\* the 1 s timeout set by w's attemptSync's catch
ListenerRetry(w) ==
  /\ w \in DOMAIN listeners
  /\ listeners[w].retry > 0
  /\ IF navigatorOnLine
     THEN /\ issued < lim.probes
          /\ issued' = issued + 1
          /\ listeners' = Update(listeners, w, [retry |-> listeners[w].retry - 1,
                                                syncScheduled |-> FALSE,
                                                probes |-> listeners[w].probes + 1])
     ELSE /\ listeners' = Update(listeners, w, [retry |-> listeners[w].retry - 1,
                                                syncScheduled |-> FALSE])
          /\ UNCHANGED issued
  /\ UNCHANGED <<navigatorOnLine, autoSyncInterval, syncScheduled, probes, recheck, retry,
                 probeOk, retried, trigger, signals, intervals, appVars>>

\* no component has called watchOnlineStatus yet; the host is online or not
NoWatcher(online) ==
  /\ navigatorOnLine = online
  /\ autoSyncInterval = FALSE
  /\ syncScheduled = FALSE
  /\ probes = 0
  /\ recheck = 0
  /\ retry = 0
  /\ probeOk = FALSE
  /\ retried = 0
  /\ trigger = "none"
  /\ signals = 0
  /\ issued = 0
  /\ intervals = 0
  /\ listeners = Empty

\* the application before its components have mounted
InitTimer ==
  /\ InitStore([writes |-> 0, midWrites |-> 0, idleWrites |-> FALSE,
                midAt |-> {}, cycles |-> 2, faults |-> 0, kinds |-> {}, ticks |-> 1,
                signals |-> MaxSignals, probes |-> MaxProbes],
               SoldProducts, SoldSales, SoldMutations,
               <<MutId(1), MutId(2), MutId(3)>>, 2, 2)
  /\ \E online \in BOOLEAN : NoWatcher(online)
  /\ view = NoView

NextTimer ==
  \/ \E w \in CallSites : watchOnlineStatus(w)
  \/ \E w \in CallSites : unsubscribe(w)
  \/ OnlineEvent
  \/ OfflineEvent
  \/ \E w \in CallSites : ListenerRecheck(w)
  \/ \E w \in CallSites : ListenerProbeSucceeds(w)
  \/ \E w \in CallSites : ListenerProbeFails(w)
  \/ \E w \in CallSites : ListenerRetry(w)
  \/ IntervalFires
  \/ SyncStep
  \/ Tick

SpecTimer == InitTimer /\ [][NextTimer]_vars

\* ------------------------------------------------------ stock status
\* variant: the threshold itself counts as in stock
getStockStatus_Strict(product) ==
  IF product.quantity = 0 THEN "Out of Stock"
  ELSE IF product.quantity < product.low_stock_level THEN "Low Stock"
  ELSE "In Stock"

\* Products.tsx getStockStatus: the label of the status
getStockStatus(product) ==
  IF product.quantity = 0 THEN "Out of Stock"
  ELSE IF product.quantity <= product.low_stock_level THEN "Low Stock"
  ELSE "In Stock"

\* Dashboard.tsx fetchDashboardData: the filter behind lowStockCount
lowStockAlert(p) == p.quantity <= p.low_stock_level

\* the product list renders the status of the product
RenderStatus ==
  /\ view.label = "none"
  /\ view' = [view EXCEPT !.label = getStockStatus(view)]
  /\ UNCHANGED <<storeVars, remoteVars, flagVars, runVars, envVars, histVars, watchVars>>

\* the dashboard counts the product among its low stock alerts, or not
fetchDashboardData ==
  /\ view.alert = "none"
  /\ view' = [view EXCEPT !.alert = IF lowStockAlert(view) THEN "yes" ELSE "no"]
  /\ UNCHANGED <<storeVars, remoteVars, flagVars, runVars, envVars, histVars, watchVars>>

\* one product of any stock and any threshold
InitStock ==
  /\ InitStore([writes |-> 0, midWrites |-> 0, idleWrites |-> FALSE,
                midAt |-> {}, cycles |-> 0, faults |-> 0, kinds |-> {}, ticks |-> 0],
               SeedProducts, Empty, Empty, <<>>, 0, 0)
  /\ Unwatched
  /\ \E q \in 0..MaxQuantity, l \in 0..MaxLevel :
       view = [quantity |-> q, low_stock_level |-> l, label |-> "none", alert |-> "none"]

NextStock ==
  \/ RenderStatus
  \/ fetchDashboardData

SpecStock == InitStock /\ [][NextStock]_vars

\* the queue's own interface: enqueueMutation called with any arguments,
\* at rest or while the apply pass runs
QueueTables == {"products", "sales"}
QueueOperations == {"INSERT", "UPDATE", "DELETE"}
QueueRecordIds == {SeedProduct, LocalId(1), SaleId(2)}
QueuePayloads == {Empty, [quantity |-> 2]}

InitQueue ==
  InitQueued([writes |-> 2 + MaxEnqueues, midWrites |-> MaxEnqueues, idleWrites |-> TRUE,
              midAt |-> {"apply"}, cycles |-> 1,
              faults |-> 0, kinds |-> {}, ticks |-> 0])

EnqueueCall ==
  \E table \in QueueTables, operation \in QueueOperations,
     recordId \in QueueRecordIds, payload \in QueuePayloads,
     pos \in UuidSlots(keyOrder) :
    enqueueMutation(table, operation, recordId, payload, pos)

NextQueue ==
  \/ EnqueueCall
  \/ performFullSync
  \/ SyncStep

SpecQueue == InitQueue /\ [][NextQueue]_vars

\* ------------------------------------------------------- product form
\* the quantities typed into the form
FormQuantities == {0, 5}

InitEdit ==
  InitWith([writes |-> MaxWrites, midWrites |-> 0, idleWrites |-> TRUE,
            midAt |-> {}, cycles |-> 1, faults |-> 0, kinds |-> {}, ticks |-> 0],
           SeedProducts, Empty, Empty, <<>>, 0, 0)

EditWrite ==
  \/ \E p \in DOMAIN products, q \in FormQuantities, online \in BOOLEAN,
        pos \in UuidSlots(keyOrder) : handleSubmit(p, q, online, pos)
  \/ \E p \in DOMAIN products, pos \in UuidSlots(keyOrder) : handleRestock(p, 1, pos)
  \/ \E p \in DOMAIN products, pos1 \in UuidSlots(keyOrder) :
       \E pos2 \in UuidSlots(InsertAt(keyOrder, pos1, MutId(nextMut + 1))) :
         completeSale(p, pos1, pos2)

NextEdit ==
  \/ EditWrite
  \/ performFullSync
  \/ SyncStep

SpecEdit == InitEdit /\ [][NextEdit]_vars

\* ===================================================================
\* Properties
\* ===================================================================
SentIdx == 1..Len(sent)

\* every request of the behaviour was accepted by the backend
AllAccepted == faults = 0 /\ \A i \in SentIdx : sent[i].acked

\* the first full sync has done its work, every request was accepted, and
\* every write was made before the sync began
FirstSyncDone == pc = "stamp" /\ cycle = 1 /\ AllAccepted /\ wroteInCycle = 0

\* the remote ids a local id stands for once the cycle is over
RemoteIds(table, id) ==
  IF startsWith(id, Prefix(table))
  THEN {sent[i].id : i \in {j \in SentIdx : /\ sent[j].table = table
                                            /\ sent[j].operation = "INSERT"
                                            /\ sent[j].recordId = id
                                            /\ sent[j].acked}}
  ELSE {id}

\* C1: after the first full sync of writes made offline, with every request
\* accepted, each local row as it was when the sync began is in the remote
\* backend exactly once with the same field values, and the remote backend
\* holds no other row
C1_NoDataLoss ==
  FirstSyncDone =>
    /\ \A p \in DOMAIN startProducts :
         /\ Cardinality(RemoteIds("products", p) \cap DOMAIN rProducts) = 1
         /\ \A r \in RemoteIds("products", p) \cap DOMAIN rProducts :
              rProducts[r].quantity = startProducts[p].quantity
    /\ \A r \in DOMAIN rProducts :
         \E p \in DOMAIN startProducts : r \in RemoteIds("products", p)
    /\ \A x \in DOMAIN startSales :
         /\ Cardinality(RemoteIds("sales", x) \cap DOMAIN rSales) = 1
         /\ \A r \in RemoteIds("sales", x) \cap DOMAIN rSales :
              /\ rSales[r].quantity_sold = startSales[x].quantity_sold
              /\ rSales[r].product_id \in RemoteIds("products", startSales[x].product_id)
    /\ \A r \in DOMAIN rSales :
         \E x \in DOMAIN startSales : r \in RemoteIds("sales", x)

\* the accepted inserts of products created under a placeholder id
ProductInserts ==
  {i \in SentIdx : /\ sent[i].table = "products" /\ sent[i].operation = "INSERT"
                   /\ startsWith(sent[i].recordId, "local_") /\ sent[i].acked}

IsPlaceholder(id) == startsWith(id, "local_") \/ startsWith(id, "sale_")

\* C2: after one full sync in which every request was accepted, the remote
\* sale of a sale created offline for a product created offline references
\* the uuid the product was inserted under, and no remote row holds a
\* placeholder id
C2_PlaceholderResolved ==
  FirstSyncDone =>
    /\ \A i \in ProductInserts :
         \A x \in DOMAIN startSales :
           startSales[x].product_id = sent[i].recordId =>
             /\ RemoteIds("sales", x) \cap DOMAIN rSales # {}
             /\ \A r \in RemoteIds("sales", x) \cap DOMAIN rSales :
                  rSales[r].product_id = sent[i].id
    /\ \A r \in DOMAIN rProducts : ~IsPlaceholder(r)
    /\ \A r \in DOMAIN rSales :
         ~IsPlaceholder(r) /\ ~IsPlaceholder(rSales[r].product_id)

C2_Witness ==
  /\ FirstSyncDone
  /\ \E i \in ProductInserts :
       \E r \in DOMAIN rSales : rSales[r].product_id = sent[i].id

\* C3: no sales mutation is transmitted with a product_id that is still a
\* placeholder id
C3_NoPlaceholderSent ==
  \A i \in SentIdx :
    (sent[i].table = "sales" /\ "product_id" \in DOMAIN sent[i].payload)
      => ~startsWith(sent[i].payload.product_id, "local_")

\* C5: the pending snapshot is in creation-timestamp order and the requests
\* of one push cycle are transmitted in that order
C5_CreationOrder ==
  /\ \A i, j \in 1..Len(snap) : i < j => snap[i].timestamp <= snap[j].timestamp
  /\ \A i, j \in SentIdx :
       (i < j /\ sent[i].cycle = sent[j].cycle)
         => sent[i].timestamp <= sent[j].timestamp

\* C7: when the insert of a record with a placeholder id is accepted, the
\* remote row is under a fresh uuid, the local row under the placeholder is
\* gone and one local row under the uuid has the former row's fields and
\* synced = true
InsertSwapped(local, local2, remote, remote2, e) ==
  /\ e.id \notin DOMAIN remote
  /\ e.id \in DOMAIN remote2
  /\ e.recordId \notin DOMAIN local2
  /\ e.id \in DOMAIN local2
  /\ e.recordId \in DOMAIN local
  /\ local2[e.id].synced
  /\ \A f \in DOMAIN local[e.recordId] \ {"synced"} :
       f \in DOMAIN local2[e.id] /\ local2[e.id][f] = local[e.recordId][f]

C7_InsertSwap ==
  [][(Len(sent') = Len(sent) + 1
        /\ sent'[Len(sent')].operation = "INSERT"
        /\ sent'[Len(sent')].acked
        /\ startsWith(sent'[Len(sent')].recordId, Prefix(sent'[Len(sent')].table)))
     => IF sent'[Len(sent')].table = "products"
        THEN InsertSwapped(products, products', rProducts, rProducts', sent'[Len(sent')])
        ELSE InsertSwapped(sales, sales', rSales, rSales', sent'[Len(sent')])]_vars

\* C8: pushing a mutation again after it was applied leaves the remote
\* backend with the rows of a single application: the requests of one
\* mutation leave at most one row
RowsOf(m) ==
  {sent[i].id : i \in {j \in SentIdx : /\ sent[j].mut = m
                                       /\ sent[j].operation = "INSERT"
                                       /\ sent[j].applied}}

C8_Idempotent ==
  \A i \in SentIdx :
    Cardinality(RowsOf(sent[i].mut)
                \cap (IF sent[i].table = "products" THEN DOMAIN rProducts
                      ELSE DOMAIN rSales)) <= 1

\* C9: a mutation leaves the queue only after the backend has acknowledged
\* a request made for it
C9_RemovedOnlyIfAcked ==
  [][\A m \in DOMAIN mutations :
       m \notin DOMAIN mutations'
         => \E i \in SentIdx : sent[i].mut = m /\ sent[i].acked]_vars

\* C4: at most one full sync runs at a time, and a call made while a sync
\* is running or less than the debounce interval after the last start
\* returns false without starting a phase and without changing the local
\* store, the mutation queue or the sync metadata
C4_AtMostOneSync ==
  /\ [](active <= 1)
  /\ [][(performFullSync
          /\ (syncInProgress \/ now - lastSyncAttempt < SYNC_DEBOUNCE_MS))
        => /\ returned' = "false"
           /\ UNCHANGED <<storeVars, remoteVars, flagVars, pc, active, cycle,
                          pull, snap, idMappings, idx, failedCount, pushResult>>]_vars

\* a call was rejected while the first sync was running
C4_Witness == cycle = 1 /\ pc = "apply" /\ active = 1 /\ returned = "false"

\* C6: a push failure leaves the mutation pending while it has failed fewer
\* than five times and failed at the fifth; a failed mutation is not
\* pending, is not transmitted, and stays failed until retryFailedMutation
\* resets it
C6_RetryCeiling ==
  /\ [](\A i \in 1..Len(getPendingMutations) :
          mutations[getPendingMutations[i]].status # "failed")
  /\ [][\A m \in DOMAIN mutations \cap DOMAIN mutations' :
         /\ mutations'[m].retries = mutations[m].retries + 1
              => mutations'[m].status =
                   (IF mutations'[m].retries < 5 THEN "pending" ELSE "failed")
         /\ mutations[m].status = "failed"
              => /\ Len(sent') = Len(sent) \/ sent'[Len(sent')].mut # m
                 /\ \/ mutations'[m] = mutations[m]
                    \/ retryFailedMutation(m)]_vars

\* a mutation failed five times, was reset and has been transmitted again
C6_Witness ==
  \E i, j \in SentIdx :
    /\ i + 5 <= j
    /\ sent[i].mut = sent[j].mut
    /\ Cardinality({k \in i..(j - 1) : sent[k].mut = sent[i].mut /\ ~sent[k].acked}) = 5
    /\ sent[j].acked

C11_NoWedge == syncInProgress ~> ~syncInProgress

\* a step of the pull of products / of sales, and one whose request was
\* answered with rows
PullsProducts == pc = "pullProducts" /\ pc' # pc
PullsSales == pc = "pullSales" /\ pc' # pc
Answered == faults' = faults

\* C12: a pull never removes a row of the local store, whatever the
\* remote result and whether the pull succeeds, fails or finds no table
C12_PullKeepsRows ==
  [][(PullsProducts \/ PullsSales)
       => /\ DOMAIN products \subseteq DOMAIN products'
          /\ DOMAIN sales \subseteq DOMAIN sales']_vars

\* the products were pulled in the first cycle and a row that the backend
\* does not have is still in the local store
C12_Witness ==
  /\ pc = "pullSales" /\ cycle = 1 /\ faults = 0
  /\ SeedProduct \in DOMAIN products /\ products[SeedProduct].lastSyncedAt = now
  /\ \E p \in DOMAIN products : p \notin DOMAIN rProducts

\* every pulled field of the local row equals the remote row's, synced
Overwritten(local, remote) ==
  \A r \in DOMAIN remote :
    /\ r \in DOMAIN local
    /\ "synced" \in DOMAIN local[r] /\ local[r].synced
    /\ \A f \in DOMAIN remote[r] : f \in DOMAIN local[r] /\ local[r][f] = remote[r][f]

\* C13: after a successful pull every local row whose id is in the remote
\* result has the remote row's fields and synced = true, whatever it held
\* before and whatever mutation is pending for it
C13_PullOverwrites ==
  [][/\ (PullsProducts /\ Answered) => Overwritten(products', rProducts)
     /\ (PullsSales /\ Answered) => Overwritten(sales', rSales)]_vars

\* the pull has overwritten a restocked product whose UPDATE is pending
C13_Witness ==
  /\ pc = "pullSales" /\ faults = 0
  /\ SeedProduct \in DOMAIN products /\ products[SeedProduct].lastSyncedAt = now
  /\ \E m \in DOMAIN mutations :
       /\ mutations[m].status = "pending" /\ mutations[m].operation = "UPDATE"
       /\ mutations[m].recordId = SeedProduct
       /\ mutations[m].payload.quantity # products[SeedProduct].quantity

\* the table as a pull of the same remote rows left it
PulledBefore(local, remote) ==
  /\ Overwritten(local, remote)
  /\ \A r \in DOMAIN remote :
       DOMAIN local[r] = DOMAIN remote[r] \cup {"synced", "lastSyncedAt"}

SameButStamp(local, local2) ==
  /\ DOMAIN local2 = DOMAIN local
  /\ \A r \in DOMAIN local :
       Without(local2[r], {"lastSyncedAt"}) = Without(local[r], {"lastSyncedAt"})

\* C14 as stated: a second pull of the same remote rows leaves the local
\* store identical in every record and every field
C14_PullTwiceIdentical ==
  [][/\ (PullsProducts /\ Answered /\ PulledBefore(products, rProducts))
          => products' = products
     /\ (PullsSales /\ Answered /\ PulledBefore(sales, rSales))
          => sales' = sales]_vars

\* C14 as amended: a second pull of the same remote rows leaves the local
\* store identical in every record and every field other than lastSyncedAt
C14_PullTwiceSame ==
  [][/\ (PullsProducts /\ Answered /\ PulledBefore(products, rProducts))
          => SameButStamp(products, products')
     /\ (PullsSales /\ Answered /\ PulledBefore(sales, rSales))
          => SameButStamp(sales, sales')]_vars

\* the second pull in a row: no write and no fault since the first
C14_Witness ==
  /\ pc = "pullSales" /\ cycle = 2 /\ writes = 0 /\ faults = 0
  /\ products[SeedProduct].lastSyncedAt = now

\* C15: a pull answered with relation-not-found returns success, merges no
\* record and leaves every local record, its synced flag included, unchanged
C15_MissingTablePull ==
  [][/\ (PullsProducts /\ ~Answered)
          => pull'.products /\ UNCHANGED <<products, sales>>
     /\ (PullsSales /\ ~Answered)
          => pull'.sales /\ UNCHANGED <<products, sales>>]_vars

\* the products table was not found: the pull went on with success and
\* the product created offline is still unsynced
C15_Witness ==
  /\ pc = "pullSales" /\ cycle = 1 /\ faults = 1 /\ pull.products
  /\ ~products[LocalId(1)].synced

\* C16: when the preflight check reports relation-not-found, the push
\* transmits nothing and returns success = false with an empty id mapping;
\* the mutations and the local store are unchanged
C16_PreflightAbort ==
  [][(pc = "push" /\ pc' # pc /\ ~Answered)
       => /\ pc' = "images"
          /\ pushResult' = [success |-> FALSE, idMappings |-> Empty]
          /\ UNCHANGED <<products, sales, mutations, keyOrder, sent,
                         rProducts, rSales>>]_vars

\* the push was aborted with both mutations still pending and untried
C16_Witness ==
  /\ pc = "images" /\ ~pushResult.success /\ sent = <<>>
  /\ Len(getPendingMutations) = 2
  /\ \A m \in DOMAIN mutations : mutations[m].retries = 0

\* the requests of the current cycle made for mutation m
SentNow(m) == {i \in SentIdx : sent[i].mut = m /\ sent[i].cycle = cycle}

\* C17: when a push pass ends, every mutation of its snapshot was tried
\* once, whatever happened to the others: one that failed has its retry
\* count raised by one and lastError set and is still queued, one that
\* succeeded has left the queue
C17_FailureIsolated ==
  [][(pc = "apply" /\ pc' = "images")
       => \A i \in 1..Len(snap) :
            LET m == snap[i].id
                done == \/ Skipped(snap[i])
                        \/ \E j \in SentNow(m) : sent[j].acked
            IN /\ Cardinality(SentNow(m)) = IF Skipped(snap[i]) THEN 0 ELSE 1
               /\ IF done
                  THEN m \notin DOMAIN mutations'
                  ELSE /\ m \in DOMAIN mutations'
                       /\ mutations'[m].retries = snap[i].retries + 1
                       /\ "lastError" \in DOMAIN mutations'[m]]_vars

\* a pass has ended in which an earlier mutation failed and a later one
\* was accepted
C17_Witness ==
  /\ pc = "images"
  /\ \E i, j \in SentIdx :
       /\ i < j /\ sent[i].cycle = cycle /\ sent[j].cycle = cycle
       /\ ~sent[i].acked /\ sent[j].acked
       /\ sent[i].mut \in DOMAIN mutations /\ mutations[sent[i].mut].retries = 1
       /\ sent[j].mut \notin DOMAIN mutations

\* a pull of the cycle has failed
PullFailed(flags) == ~flags.products \/ ~flags.sales

\* the phases that can follow a phase of performFullSync
PhasesAfter(p) ==
  CASE p = "pullProducts" -> {"pullSales"}
    [] p = "pullSales" -> {"push"}
    [] p = "push" -> {"apply", "images"}
    [] p = "apply" -> {"images"}
    [] p = "images" -> {"fixup", "stamp"}
    [] p = "fixup" -> {"stamp"}
    [] p = "stamp" -> {"idle"}
    [] OTHER -> {}

\* C18: in a cycle in which a pull has failed every later phase still
\* runs, the other pull and the push included, and the cycle returns false
C18_PullBestEffort ==
  [][((PullFailed(pull) \/ PullFailed(pull')) /\ pc' # pc)
       => /\ pc' \in PhasesAfter(pc)
          /\ pc' = "idle" => returned' = "false"]_vars

\* the pull of products failed and the push of the same cycle has had a
\* mutation accepted
C18_Witness ==
  /\ ~pull.products /\ pull.sales /\ pc = "images"
  /\ \E i \in SentIdx : sent[i].cycle = cycle /\ sent[i].acked

\* the mutations of the snapshot of the pass in flight
SnapIds == {snap[i].id : i \in 1..Len(snap)}

\* C19: a mutation enqueued while a push pass is in flight is not sent in
\* that pass, is neither removed nor altered by it, and every mutation
\* pending when the next pass begins is in that pass's snapshot
C19_MidSyncEnqueue ==
  [][/\ (pc = "apply" /\ writes' = writes)
          => \A m \in DOMAIN mutations \ SnapIds :
               /\ m \in DOMAIN mutations' /\ mutations'[m] = mutations[m]
               /\ Len(sent') > Len(sent) => sent'[Len(sent')].mut # m
     /\ (pc = "push" /\ pc' = "apply")
          => \A m \in DOMAIN mutations :
               mutations[m].status = "pending"
                 => \E i \in 1..Len(snap') : snap'[i].id = m]_vars

\* the second pass has in its snapshot a mutation that the UI enqueued
\* during the first pass
C19_Witness ==
  /\ pc = "apply" /\ cycle = 2
  /\ \E i \in 1..Len(snap) :
       /\ snap[i].id[1] = "uuid" /\ snap[i].timestamp > 3
       /\ \A j \in SentIdx : sent[j].mut # snap[i].id

\* the fixup rewrites each sale that references a mapped id and enqueues
\* one pending UPDATE for it; it leaves the other sales alone
FixupRewrites ==
  (pc = "fixup" /\ pc' = "stamp")
    => LET map == pushResult.idMappings
           new == DOMAIN mutations' \ DOMAIN mutations
       IN /\ DOMAIN sales' = DOMAIN sales
          /\ DOMAIN mutations \subseteq DOMAIN mutations'
          /\ \A x \in DOMAIN sales :
               LET for == {m \in new : mutations'[m].recordId = x}
               IN IF sales[x].product_id \in DOMAIN map
                  THEN /\ sales'[x] = Merge(sales[x],
                                           [product_id |-> map[sales[x].product_id]])
                       /\ Cardinality(for) = 1
                       /\ \A m \in for :
                            /\ mutations'[m].table = "sales"
                            /\ mutations'[m].operation = "UPDATE"
                            /\ mutations'[m].status = "pending"
                            /\ mutations'[m].payload =
                                 [product_id |-> map[sales[x].product_id]]
                  ELSE sales'[x] = sales[x] /\ for = {}

\* once the push is done with a mutation of the fixup, the remote copy of
\* its sale references the new id
FixupReachesRemote ==
  \A m \in DOMAIN mutations \ DOMAIN mutations' :
    (m[1] = "remap_" /\ writes' = writes)
      => \A r \in RemoteIds("sales", mutations[m].recordId) \cap DOMAIN rSales' :
           rSales'[r].product_id = mutations[m].payload.product_id

\* C20: after a push with a non-empty id mapping the fixup rewrites the
\* product_id of every local sale that references a mapped id, enqueues one
\* pending UPDATE for it and leaves the other sales alone, and a later push
\* corrects the remote copy of the sale with that UPDATE
C20_FixupCorrects == [][FixupRewrites /\ FixupReachesRemote]_vars

C20_LocalPart == [][FixupRewrites]_vars

\* the effect of enqueueMutation on the queue and on the business records
EnqueuePost(table, operation, recordId, payload) ==
  LET new == DOMAIN mutations' \ DOMAIN mutations
  IN /\ Cardinality(new) = 1
     /\ \A m \in new :
          /\ mutations'[m].status = "pending"
          /\ mutations'[m].retries = 0
          /\ mutations'[m].table = table
          /\ mutations'[m].operation = operation
          /\ mutations'[m].recordId = recordId
          /\ mutations'[m].payload = payload
          /\ Len(SelectSeq(keyOrder', LAMBDA k : k = m)) = 1
     /\ \A m \in DOMAIN mutations :
          m \in DOMAIN mutations' /\ mutations'[m] = mutations[m]
     /\ products' = products /\ sales' = sales
     /\ rProducts' = rProducts /\ rSales' = rSales

\* C21: enqueueMutation(table, operation, recordId, payload) adds exactly
\* one mutation, under an id no mutation of the queue has, pending, with
\* retry count 0 and the given table, operation, recordId and payload, and
\* changes no other mutation and no business record
C21_EnqueueAddsOne ==
  [][\A table \in QueueTables, operation \in QueueOperations,
       recordId \in QueueRecordIds, payload \in QueuePayloads,
       pos \in UuidSlots(keyOrder) :
       enqueueMutation(table, operation, recordId, payload, pos)
         => EnqueuePost(table, operation, recordId, payload)]_vars

\* an enqueueMutation call made while the apply pass was running, next to
\* the two mutations queued before
C21_Witness ==
  /\ pc = "apply"
  /\ wroteInCycle = 1
  /\ Cardinality(DOMAIN mutations) = 3
  /\ \E m \in DOMAIN mutations : mutations[m].timestamp = 3

\* a UI write made while the host reports offline
OfflineWriteStep == writes' = writes + 1 /\ ~navigatorOnLine

C23_ProbeBeforeTimer ==
  [][/\ (navigatorOnLine' /\ ~probeOk') => ~autoSyncInterval'
     /\ (trigger' # trigger \/ cycle' # cycle) => probeOk']_vars

\* C24: after an online signal the retry timeout issues at most one probe
C24_RetryOnce == retried <= 1

\* C24 as the code has it: a failed probe leaves a retry pending, the retry
\* issues a new probe exactly when the host still reports online, and while
\* the host reports online and no probe has succeeded since the signal the
\* watcher has a probe in flight or a retry pending; it does not give up
C24_KeepsRetrying ==
  [][/\ syncScheduled' => retry' > 0
     /\ retry' = retry - 1 =>
          /\ ~syncScheduled'
          /\ probes' = IF navigatorOnLine THEN probes + 1 ELSE probes
     /\ (navigatorOnLine' /\ ~probeOk') => (probes' > 0 \/ retry' > 0)]_vars

\* the retry has issued its second probe since the signal, no probe having
\* succeeded
C24_Witness == navigatorOnLine /\ ~probeOk /\ retried = 2 /\ probes = 1

\* the local table holds every row of the remote table with its values
HoldsRemote(local, remote) ==
  \A r \in DOMAIN remote :
    /\ r \in DOMAIN local
    /\ \A f \in DOMAIN remote[r] : local[r][f] = remote[r][f]

\* the rows of a table that the remote table does not have are as before
KeepsLocalOnly(before, after, remote) ==
  \A l \in DOMAIN before \ DOMAIN remote :
    l \in DOMAIN after /\ after[l] = before[l]

\* C25: entering the cycle and pulling leave the mutation queue as it was;
\* an answered pull leaves the remote rows in the local table; when the
\* push is about to begin, every local-only row is as it was when the
\* cycle began
C25_PullLeavesQueue ==
  [][(pc' \in {"pullProducts", "pullSales", "push"} /\ pc' # pc) =>
       /\ mutations' = mutations /\ keyOrder' = keyOrder
       /\ (PullsProducts /\ Answered) => HoldsRemote(products', rProducts)
       /\ (PullsSales /\ Answered) => HoldsRemote(sales', rSales)
       /\ pc' = "push" =>
            /\ KeepsLocalOnly(startProducts, products', rProducts)
            /\ KeepsLocalOnly(startSales, sales', rSales)]_vars

\* the pulls are over, the push has not begun: a pulled row, a row created
\* offline and its pending mutation are in the local store
C25_Witness ==
  /\ pc = "push"
  /\ faults = 0
  /\ SeedProduct \in DOMAIN products /\ products[SeedProduct].lastSyncedAt = now
  /\ \E p \in DOMAIN products : startsWith(p, "local_")
  /\ \E m \in DOMAIN mutations : mutations[m].status = "pending"

\* C26: the product list labels a product Out of Stock when its quantity
\* is 0, Low Stock when 0 < quantity <= low_stock_level and In Stock when
\* quantity > low_stock_level; the dashboard's low stock alert leaves out
\* exactly the products labelled In Stock
C26_StockStatus ==
  /\ view.label # "none" =>
       /\ view.quantity = 0 => view.label = "Out of Stock"
       /\ (0 < view.quantity /\ view.quantity <= view.low_stock_level)
            => view.label = "Low Stock"
       /\ view.quantity > view.low_stock_level => view.label = "In Stock"
  /\ (view.label # "none" /\ view.alert # "none") =>
       (view.alert = "no" <=> view.label = "In Stock")

\* a product with as many units as its threshold has been labelled and
\* counted
C26_Witness ==
  /\ view.quantity = 7 /\ view.low_stock_level = 7
  /\ view.label = "Low Stock" /\ view.alert = "yes"

\* the apply pass takes its next mutation
Applies == pc = "apply" /\ idx <= Len(snap) /\ idx' = idx + 1

\* the products UPDATEs of the snapshot that are aimed at record r and are
\* skipped
SkippedUpdates(r) ==
  {j \in 1..Len(snap) : /\ snap[j].table = "products"
                         /\ snap[j].operation = "UPDATE"
                         /\ snap[j].recordId = r
                         /\ Skipped(snap[j])}

\* C27: when the INSERT of a product created offline is accepted and an
\* UPDATE of that product is skipped in the same pass, the inserted remote
\* row has the field values of the local record
C27_InsertCarriesCurrent ==
  [][(/\ Applies
      /\ snap[idx].table = "products" /\ snap[idx].operation = "INSERT"
      /\ startsWith(snap[idx].recordId, "local_")
      /\ snap[idx].recordId \in DOMAIN products
      /\ SkippedUpdates(snap[idx].recordId) # {}
      /\ Len(sent') = Len(sent) + 1 /\ sent'[Len(sent')].acked)
       => LET id == sent'[Len(sent')].id
          IN /\ id \in DOMAIN rProducts'
             /\ rProducts'[id].quantity = products[snap[idx].recordId].quantity]_vars

\* the INSERT that resolved placeholder r was accepted in this cycle
Resolved(r) ==
  \E i \in SentIdx : /\ sent[i].cycle = cycle /\ sent[i].operation = "INSERT"
                      /\ sent[i].recordId = r /\ sent[i].acked

\* C28: in the apply pass an UPDATE or DELETE whose placeholder id was
\* resolved by an INSERT accepted earlier in the cycle is transmitted under
\* the mapped uuid
C28_ResolvedTargetSent ==
  [][(/\ Applies
      /\ snap[idx].operation # "INSERT"
      /\ snap[idx].recordId \in DOMAIN idMappings
      /\ Resolved(snap[idx].recordId))
       => /\ Len(sent') = Len(sent) + 1
          /\ sent'[Len(sent')].mut = snap[idx].id
          /\ sent'[Len(sent')].id = idMappings[snap[idx].recordId]]_vars

\* the phase that follows a phase of performFullSync
FollowedBy(phase) ==
  CASE phase = "idle" -> {"pullProducts"}
    [] phase = "pullProducts" -> {"pullSales"}
    [] phase = "pullSales" -> {"push"}
    [] phase = "push" -> {"apply", "images"}
    [] phase = "apply" -> {"images"}
    [] phase = "images" -> IF DOMAIN pushResult.idMappings # {}
                           THEN {"fixup"} ELSE {"stamp"}
    [] phase = "fixup" -> {"stamp"}
    [] phase = "stamp" -> {"idle"}

\* C29: a full sync goes through its phases in this order and one at a
\* time: pull of the products, pull of the sales, push, image sync, the
\* reference fixup exactly when the push returned a mapping, the stamp; the
\* backend is written during the push only, the stamp is written last
C29_PhaseOrder ==
  [][/\ pc' # pc => pc' \in FollowedBy(pc)
     /\ sent' # sent => (pc = "apply" /\ pc' = "apply")
     /\ syncMeta' # syncMeta => (pc = "stamp" /\ pc' = "idle")]_vars

\* a cycle that has run its fixup and is about to write the stamp
C29_Witness ==
  /\ pc = "stamp"
  /\ DOMAIN pushResult.idMappings # {}
  /\ sent # <<>>
  /\ pull.products /\ pull.sales

\* the products a UI write has touched since the running cycle began (under
\* SpecRace every write of the behaviour is made during the cycle)
WrittenInCycle ==
  {mutations[m].recordId :
     m \in {k \in DOMAIN mutations : /\ mutations[k].table = "products"
                                      /\ mutations[k].timestamp > Cardinality(DOMAIN QueuedMutations)}}

\* C30: the pull merge of a cycle leaves a product written by the UI during
\* that cycle as the UI left it (present or deleted, with its quantity),
\* and the id swap carries its quantity over to the row under the uuid
C30_NoLostUiWrite ==
  [][/\ PullsProducts =>
          \A p \in WrittenInCycle :
            /\ p \in DOMAIN products' <=> p \in DOMAIN products
            /\ p \in DOMAIN products =>
                 products'[p].quantity = products[p].quantity
     /\ (/\ Applies /\ snap[idx].table = "products" /\ snap[idx].operation = "INSERT"
         /\ snap[idx].recordId \in WrittenInCycle \cap DOMAIN products
         /\ Len(sent') = Len(sent) + 1 /\ sent'[Len(sent')].acked) =>
          LET id == sent'[Len(sent')].id
          IN /\ id \in DOMAIN products'
             /\ products'[id].quantity = products[snap[idx].recordId].quantity]_vars

\* a step of the push or of the fixup
PushOrFixupStep == pc \in {"push", "apply", "fixup"} /\ writes' = writes

\* the row a sale has after the step: under its key, or under the uuid its
\* accepted INSERT has just swapped it to
SaleAfter(s) ==
  IF s \in DOMAIN sales' THEN {s}
  ELSE IF /\ Len(sent') = Len(sent) + 1
          /\ sent'[Len(sent')].table = "sales"
          /\ sent'[Len(sent')].recordId = s
          /\ sent'[Len(sent')].id \in DOMAIN sales'
       THEN {sent'[Len(sent')].id}
       ELSE {}

\* C31: the push and the fixup change the product_id of a local sale only
\* from a placeholder id to a uuid, so at most once, and change no other
\* business field of it
C31_SaleRewrittenOnce ==
  [][PushOrFixupStep =>
       \A s \in DOMAIN sales : \A t \in SaleAfter(s) :
         /\ sales'[t].quantity_sold = sales[s].quantity_sold
         /\ sales'[t].product_id # sales[s].product_id =>
              /\ startsWith(sales[s].product_id, "local_")
              /\ ~startsWith(sales'[t].product_id, "local_")]_vars


\* a UI handler changes the quantity of product p
QuantityWritten(p) ==
  /\ writes' = writes + 1
  /\ p \in DOMAIN products /\ p \in DOMAIN products'
  /\ products'[p].quantity # products[p].quantity

\* the handler has queued a products UPDATE of p carrying the quantity it wrote
QueuedSameQuantity(p) ==
  \E m \in DOMAIN mutations' \ DOMAIN mutations :
    /\ mutations'[m].table = "products"
    /\ mutations'[m].operation = "UPDATE"
    /\ mutations'[m].recordId = p
    /\ mutations'[m].status = "pending"
    /\ mutations'[m].payload.quantity = products'[p].quantity

\* C32: every user operation that changes a product's local quantity also
\* enqueues a products UPDATE of that product whose payload carries the
\* quantity written to the local store
C32_QuantityChangeQueued ==
  [][\A p \in DOMAIN products : QuantityWritten(p) => QueuedSameQuantity(p)]_vars

\* a full sync has done its pulls, its push and its fixup, every request of
\* the behaviour was accepted and no write was made during the cycle
SyncSucceeded == pc = "stamp" /\ cycle >= 1 /\ AllAccepted /\ wroteInCycle = 0

\* C33: after a full sync in which every request succeeded and no write was
\* made, each local record that is also in the remote backend has the field
\* values of its remote row and is marked synced
C33_ConvergedAfterSync ==
  SyncSucceeded =>
    /\ \A p \in DOMAIN products \cap DOMAIN rProducts :
         /\ products[p].quantity = rProducts[p].quantity
         /\ products[p].synced
    /\ \A x \in DOMAIN sales \cap DOMAIN rSales :
         /\ sales[x].quantity_sold = rSales[x].quantity_sold
         /\ sales[x].product_id = rSales[x].product_id
         /\ sales[x].synced

\* the backend has accepted, in the running cycle, an INSERT under id newId
AcceptedInsert(newId) ==
  \E i \in SentIdx :
    /\ sent[i].operation = "INSERT"
    /\ sent[i].id = newId
    /\ sent[i].applied /\ sent[i].acked
    /\ sent[i].cycle = cycle

\* C34: every entry of the id mapping returned by pushPendingMutations is
\* the id of an INSERT the backend accepted in that cycle, whose remote row
\* exists when the push returns
C34_MappingsOfAcceptedInserts ==
  pc \in {"images", "fixup"} =>
    \A old \in DOMAIN pushResult.idMappings :
      /\ AcceptedInsert(pushResult.idMappings[old])
      /\ pushResult.idMappings[old] \in DOMAIN rProducts \cup DOMAIN rSales

\* C35: a product created offline and deleted offline before any sync is not
\* in the remote backend after the next full sync, with every request accepted
C35_DeletedNeverRemote ==
  FirstSyncDone =>
    \A i \in SentIdx :
      (/\ sent[i].table = "products"
       /\ sent[i].operation = "INSERT"
       /\ startsWith(sent[i].recordId, "local_")
       /\ sent[i].recordId \notin DOMAIN startProducts)
        => sent[i].id \notin DOMAIN rProducts

\* the retry count of every mutation of queue q agrees with its status
RetriesMatchStatus(q) ==
  \A m \in DOMAIN q :
    /\ q[m].status = "pending" => q[m].retries < maxRetries
    /\ q[m].status = "failed" => q[m].retries >= maxRetries

\* C37: a pending mutation has failed fewer than five times and a failed one
\* at least five times, and a retry count goes down only when
\* retryFailedMutation resets a failed mutation to pending with count 0
C37_RetryCountBounds ==
  /\ [](RetriesMatchStatus(mutations))
  /\ [][\A m \in DOMAIN mutations \cap DOMAIN mutations' :
         mutations'[m].retries < mutations[m].retries
           => /\ mutations[m].status = "failed"
              /\ mutations'[m].status = "pending"
              /\ mutations'[m].retries = 0]_vars

\* a mutation that failed five times has been reset and has failed again
C37_Witness ==
  \E m \in DOMAIN mutations :
    /\ mutations[m].status = "pending"
    /\ mutations[m].retries = 1
    /\ Cardinality({i \in SentIdx : sent[i].mut = m /\ ~sent[i].acked}) = maxRetries + 1

\* the requests of the apply passes that carried mutation m
SendsOf(m) == {i \in SentIdx : sent[i].mut = m}

\* every full sync the behaviour allows has run
CyclesRan == cycle = lim.cycles /\ pc = "idle"

\* C36: with no new UI write and a provisioned backend, a mutation is
\* transmitted by at most five push passes, after which it is removed or
\* failed, and when the push cycles keep running the queue comes to hold no
\* pending mutation
C36_QueueDrains ==
  /\ [](\A i \in SentIdx : Cardinality(SendsOf(sent[i].mut)) <= maxRetries)
  /\ <>CyclesRan => <>[](getPendingMutations = <<>>)

\* the queue has drained with one mutation failed after five passes and
\* another one accepted and removed
C36_Witness ==
  /\ pc = "idle"
  /\ getPendingMutations = <<>>
  /\ \E m \in DOMAIN mutations :
       /\ mutations[m].status = "failed"
       /\ Cardinality(SendsOf(m)) = maxRetries
  /\ \E i \in SentIdx : sent[i].acked /\ sent[i].mut \notin DOMAIN mutations

\* the watcher calls performFullSync: from a probe or from the timer
WatcherCallsSync == trigger' # trigger \/ cycle' # cycle

\* C38: between an offline signal of the host and its next online signal the
\* watcher does not call performFullSync, be it from a probe in flight, from
\* a scheduled retry or from a tick of the timer
C38_NoSyncWhileOffline ==
  [][(WatcherCallsSync /\ signals >= 1) => navigatorOnLine]_vars

\* component w unsubscribes while another component is still registered and
\* the host is online
UnsubscribeBesideAnother(w) ==
  /\ w \in Registered
  /\ w \in DOMAIN listeners' /\ ~listeners'[w].registered
  /\ Registered \ {w} # {}
  /\ navigatorOnLine

\* C39: at most one periodic timer is alive, whatever the number of online
\* signals and of registered watchers, and when one watcher unsubscribes
\* while another is registered and the host is online the timer stays set
C39_OneSharedTimer ==
  /\ [](intervals <= 1 /\ (autoSyncInterval <=> intervals = 1))
  /\ [][\A w \in CallSites :
         (UnsubscribeBesideAnother(w) /\ autoSyncInterval) => autoSyncInterval']_vars

====
